---------------------------- MODULE Spec2Model ----------------------------
(***************************************************************************)
(* Model of src/main.py: the cookie pool manager (preferred_cookies,      *)
(* _make_ordered_cookie_list, _update_preferred, cookies_status), the     *)
(* caption fetcher (extract_transcript), the paragraph segmenter          *)
(* (merge_paragraphs) and the error paths of the four transcript          *)
(* endpoints.                                                              *)
(*                                                                         *)
(* Python strings are sequences of one-character strings, so that strip,  *)
(* lower, startswith, the substring test and concatenation are computed.  *)
(* Cookie file names are the integers 1..n: name k stands for the k-th    *)
(* file name in sorted order, which is the order sorted(os.listdir) gives. *)
(***************************************************************************)
EXTENDS Integers, Sequences, FiniteSets, TLC

VARIABLES
    \* ---- merge_paragraphs (one call, line by line)
    transcript,     \* the argument: a sequence of [start, text]
    max_chars,      \* the argument max_chars
    max_gap,        \* the argument max_gap
    i,              \* loop index of enumerate(transcript), 1-based
    current,        \* the accumulator string
    count,          \* the running character count
    paragraphs,     \* the result list
    segPc,          \* "loop" | "done"
    lastAppend,     \* history: what the last appending iteration did
    \* ---- the cookie pool
    preferred_cookies,  \* the module-level list of line 25
    files,          \* the cookies_*.txt files now present in the working directory
    seen,           \* history: the names that have been in the directory
    lastOp,         \* history: the last completed operation on the pool
    nOps,           \* history: list mutations and directory changes so far
    \* ---- requests in flight
    overlap,        \* whether a request may start while another is suspended
    fetch,          \* per transcript request: position, locals and history
    health,         \* the /cookies/status request: position and locals
    nReq,           \* history: requests begun so far
    promoListed,    \* history: names whose last promoter had listed them
    promoExisted    \* history: names that existed when last promoted

segVars == <<transcript, max_chars, max_gap, i, current, count, paragraphs,
             segPc, lastAppend>>

poolVars == <<preferred_cookies, files, seen, lastOp, nOps>>

reqVars == <<overlap, fetch, health, nReq, promoListed, promoExisted>>

vars == <<segVars, poolVars, reqVars>>

-----------------------------------------------------------------------------
(* Strings *)

Range(s) == {s[k] : k \in 1..Len(s)}

IsSpace(c) == c \in {" ", "\t", "\n"}

\* str.lower() on one character
LowerChar(c) ==
    CASE c = "A" -> "a" [] c = "B" -> "b" [] c = "C" -> "c" [] c = "D" -> "d"
      [] c = "E" -> "e" [] c = "F" -> "f" [] c = "G" -> "g" [] c = "H" -> "h"
      [] c = "I" -> "i" [] c = "J" -> "j" [] c = "K" -> "k" [] c = "L" -> "l"
      [] c = "M" -> "m" [] c = "N" -> "n" [] c = "O" -> "o" [] c = "P" -> "p"
      [] c = "Q" -> "q" [] c = "R" -> "r" [] c = "S" -> "s" [] c = "T" -> "t"
      [] c = "U" -> "u" [] c = "V" -> "v" [] c = "W" -> "w" [] c = "X" -> "x"
      [] c = "Y" -> "y" [] c = "Z" -> "z" [] OTHER -> c

\* str.lower()
Lower(s) == [k \in 1..Len(s) |-> LowerChar(s[k])]

\* str.strip(): drop leading and trailing whitespace
Strip(s) ==
    LET idx == {k \in 1..Len(s) : ~IsSpace(s[k])}
    IN  IF idx = {} THEN <<>>
        ELSE LET lo == CHOOSE k \in idx : \A m \in idx : k <= m
                 hi == CHOOSE k \in idx : \A m \in idx : k >= m
             IN  SubSeq(s, lo, hi)

\* str.startswith(p)
StartsWith(s, p) == Len(p) <= Len(s) /\ SubSeq(s, 1, Len(p)) = p

\* the Python test  p in s  on strings
Contains(s, p) ==
    \E k \in 0..(Len(s) - Len(p)) : SubSeq(s, k + 1, k + Len(p)) = p

\* texts used as inputs
tHello == <<"H","e","l","l","o">>
tWorld == <<"w","o","r","l","d">>
tNextTopic == <<"N","e","x","t"," ","t","o","p","i","c">>
tMusic == <<"[","M","u","s","i","c","]">>
tPadded == <<" ","o","k"," ">>
tBlank == <<" ">>

-----------------------------------------------------------------------------
(* merge_paragraphs *)

MaxGapDefault == 8
MaxCharsDefault == 300

\* the filler markers of line 168
FillerMarkers ==
    { <<"[","a","p","p","l","a","u","s","e","]">>,
      <<"(","a","p","p","l","a","u","s","e",")">> ,
      <<"[","m","u","s","i","c","]">>,
      <<"(","m","u","s","i","c",")">> }

\* line 165: text = (line.get("text") or "").strip()
LineText(line) == Strip(line.text)

\* lines 166-169: the two `continue` tests
Filtered(line) ==
    \/ LineText(line) = <<>>
    \/ Lower(LineText(line)) \in FillerMarkers

\* line 174: next_line = transcript[i + 1] if i + 1 < len(transcript) else None
\* (0 stands for None; indices are 1-based here)
NextLineIdx(tr, k) == IF k + 1 <= Len(tr) THEN k + 1 ELSE 0

\* line 175: long_pause = next_line and (next_line["start"] - line["start"] > max_gap)
LongPause(tr, k, gap) ==
    /\ NextLineIdx(tr, k) # 0
    /\ tr[NextLineIdx(tr, k)].start - tr[k].start > gap

\* line 177: count > max_chars or long_pause or not next_line
ShouldClose(tr, k, cnt, chars, gap) ==
    \/ cnt > chars
    \/ LongPause(tr, k, gap)
    \/ NextLineIdx(tr, k) = 0

\* line 171: current += (" " if current else "") + text
AppendText(cur, text) == cur \o (IF cur # <<>> THEN <<" ">> ELSE <<>>) \o text

\* One iteration of the loop body (lines 165-180) on the accumulator state
\* st = [current, count, paragraphs].
MergeStep(st, tr, k, chars, gap) ==
    IF Filtered(tr[k]) THEN st
    ELSE LET cur == AppendText(st.current, LineText(tr[k]))
             cnt == st.count + Len(LineText(tr[k]))
         IN  IF ShouldClose(tr, k, cnt, chars, gap)
             THEN [current |-> <<>>, count |-> 0,
                   paragraphs |-> Append(st.paragraphs, Strip(cur))]
             ELSE [current |-> cur, count |-> cnt, paragraphs |-> st.paragraphs]

RECURSIVE MergeFrom(_, _, _, _, _)
MergeFrom(st, tr, k, chars, gap) ==
    IF k > Len(tr) THEN st.paragraphs
    ELSE MergeFrom(MergeStep(st, tr, k, chars, gap), tr, k + 1, chars, gap)

\* merge_paragraphs(transcript, max_chars, max_gap) as a whole
MergeParagraphs(tr, chars, gap) ==
    MergeFrom([current |-> <<>>, count |-> 0, paragraphs |-> <<>>], tr, 1, chars, gap)

\* no call of merge_paragraphs in progress
NoAppend == [idx |-> 0, cnt |-> 0, closed |-> FALSE]

SegIdle ==
    /\ transcript = <<>> /\ max_chars = MaxCharsDefault /\ max_gap = MaxGapDefault
    /\ i = 1 /\ current = <<>> /\ count = 0 /\ paragraphs = <<>>
    /\ segPc = "done" /\ lastAppend = NoAppend

-----------------------------------------------------------------------------
(* The cookie pool: preferred_cookies and the directory *)

MinKeep == 6

Max(a, b) == IF a >= b THEN a ELSE b

Min(a, b) == IF a <= b THEN a ELSE b

\* a set of integers as the ascending list: sorted([...]) of line 31
RECURSIVE Sorted(_)
Sorted(S) ==
    IF S = {} THEN <<>>
    ELSE LET m == CHOOSE x \in S : \A y \in S : x <= y
         IN  <<m>> \o Sorted(S \ {m})

\* _find_cookie_files(): the matching names of os.listdir("."), sorted
FindCookieFiles(fs) == Sorted(fs)

\* list.remove(x): drop the first occurrence of x (x is in the list)
ListRemove(l, x) ==
    LET k == CHOOSE m \in 1..Len(l) : l[m] = x /\ \A n \in 1..(m - 1) : l[n] # x
    IN  SubSeq(l, 1, k - 1) \o SubSeq(l, k + 1, Len(l))

\* lines 52-54 and 331-333: if c in list: list.remove(c); list.insert(0, c)
MoveToFront(l, c) == <<c>> \o (IF c \in Range(l) THEN ListRemove(l, c) ELSE l)

\* l[:n]
Take(l, n) == SubSeq(l, 1, Min(n, Len(l)))

\* a variant of _update_preferred that inserts without removing the old entry
UpdatePreferredNoRemove(pref, c, fs) ==
    Take(<<c>> \o pref, Max(MinKeep, Len(FindCookieFiles(fs))))

\* _update_preferred(cookie_file) with the directory holding fs
UpdatePreferred(pref, c, fs) ==
    Take(MoveToFront(pref, c), Max(MinKeep, Len(FindCookieFiles(fs))))

\* a variant of the loop of lines 330-333 that inserts without removing
RECURSIVE HealthPromoteNoRemove(_, _)
HealthPromoteNoRemove(pref, working) ==
    IF working = <<>> THEN pref
    ELSE HealthPromoteNoRemove(<<working[Len(working)]>> \o pref,
                               SubSeq(working, 1, Len(working) - 1))

\* lines 330-333: for c in reversed(working): move c to the front
RECURSIVE HealthPromote(_, _)
HealthPromote(pref, working) ==
    IF working = <<>> THEN pref
    ELSE HealthPromote(MoveToFront(pref, working[Len(working)]),
                       SubSeq(working, 1, Len(working) - 1))

\* lines 37-41: the preferred cookies that still exist, in stored order
RECURSIVE PreferredFirst(_, _, _)
PreferredFirst(pref, cookie_files, ordered) ==
    IF pref = <<>> THEN ordered
    ELSE PreferredFirst(Tail(pref), cookie_files,
            IF Head(pref) \in Range(cookie_files) /\ Head(pref) \notin Range(ordered)
            THEN Append(ordered, Head(pref)) ELSE ordered)

\* every order random.shuffle can leave a list in
Shuffles(l) ==
    {p \in [1..Len(l) -> Range(l)] : \A a, b \in 1..Len(l) : a # b => p[a] # p[b]}

\* a variant of _make_ordered_cookie_list without the test `c in cookie_files`
MakeOrderedNoExistCheck(pref, fs) ==
    LET cookie_files == FindCookieFiles(fs)
        ordered == PreferredFirst(pref, pref, <<>>)
        InRest(c) == c \notin Range(ordered)
        remaining == SelectSeq(cookie_files, InRest)
    IN  {ordered \o sh : sh \in Shuffles(remaining)}

\* _make_ordered_cookie_list(): the lists it can return
MakeOrderedCookieList(pref, fs) ==
    LET cookie_files == FindCookieFiles(fs)
        ordered == PreferredFirst(pref, cookie_files, <<>>)
        InRest(c) == c \notin Range(ordered)
        remaining == SelectSeq(cookie_files, InRest)
    IN  {ordered \o sh : sh \in Shuffles(remaining)}

-----------------------------------------------------------------------------
(* Requests: what extract_transcript and the endpoints compute *)

FetchSlots == {"f1", "f2"}

\* language codes of caption tracks
langEn == <<"e","n">>
langEnUS == <<"e","n","-","U","S">>
langEs == <<"e","s">>

\* what ydl.extract_info can return: the keys of info["subtitles"] and of
\* info["automatic_captions"], in dict order
Infos == [subtitles : {<<>>, <<langEs>>, <<langEn>>},
          automatic_captions : {<<>>, <<langEs>>, <<langEs, langEnUS>>}]

\* dict.update(d) on the key order: new keys are added at the end
RECURSIVE DictUpdate(_, _)
DictUpdate(keys, more) ==
    IF more = <<>> THEN keys
    ELSE DictUpdate(IF Head(more) \in Range(keys) THEN keys ELSE Append(keys, Head(more)),
                    Tail(more))

\* lines 85-89 and 125-129: subs = {} updated with subtitles, then automatic_captions
MergeSubs(info) == DictUpdate(DictUpdate(<<>>, info.subtitles), info.automatic_captions)

\* lines 95 and 134: next((k for k in subs.keys() if k.startswith("en")), None);
\* <<>> stands for None
EnKey(subs) ==
    LET hits == {k \in 1..Len(subs) : StartsWith(subs[k], langEn)}
    IN  IF hits = {} THEN <<>>
        ELSE subs[CHOOSE k \in hits : \A m \in hits : k <= m]

\* lines 91-97 and 131-136: what the track metadata lets the attempt do
TrackOutcome(info) ==
    IF MergeSubs(info) = <<>> THEN "nosubs"
    ELSE IF EnKey(MergeSubs(info)) = <<>> THEN "noen"
    ELSE "en"

\* caption events: tStartMs and the utf8 of each seg; segs = <<"nosegs">> stands
\* for an event without the key "segs"
NoSegs == <<"nosegs">>

\* lines 105-110: the (start, text) pairs of an event
RECURSIVE FlattenSegs(_, _)
FlattenSegs(ms, segs) ==
    IF segs = <<>> \/ segs = NoSegs THEN <<>>
    ELSE (IF Strip(Head(segs)) # <<>>
          THEN <<[start |-> ms \div 1000, text |-> Head(segs)]>> ELSE <<>>)
         \o FlattenSegs(ms, Tail(segs))

RECURSIVE Flatten(_)
Flatten(events) ==
    IF events = <<>> THEN <<>>
    ELSE FlattenSegs(Head(events).tStartMs, Head(events).segs) \o Flatten(Tail(events))

\* the caption payloads a download can return
EventLists ==
    { <<>>,
      << [tStartMs |-> 0, segs |-> <<tHello, tBlank, tWorld>>],
         [tStartMs |-> 1000, segs |-> NoSegs],
         [tStartMs |-> 20000, segs |-> <<tNextTopic>>] >>,
      << [tStartMs |-> 0, segs |-> <<tHello>>],
         [tStartMs |-> 1000, segs |-> <<tMusic>>] >> }

\* exception messages
mSignIn == <<"S","i","g","n"," ","i","n">>
mNotABot == <<"N","o","t"," ","a"," ","b","o","t">>
mPrivate == <<"P","r","i","v","a","t","e">>
mCookies == <<"c","o","o","k","i","e","s">>
mOther == <<"H","T","T","P"," ","4","2","9">>

Messages == {mSignIn, mNotABot, mPrivate, mCookies, mOther}

\* the literals of lines 191, 204 and 214, each kept as one chunk
NoCaptionsMessage == <<"No English captions found">>
GuidanceMessage ==
    <<"YouTube cookies may be expired/invalid. Please check /cookies/status and update cookies_*.txt on the server.">>

\* line 203: the substring tests on str(e).lower()
LooksExpired(msg) ==
    LET emsg == Lower(msg)
    IN  \/ Contains(emsg, <<"s","i","g","n"," ","i","n">>)
        \/ Contains(emsg, <<"n","o","t"," ","a"," ","b","o","t">>)
        \/ Contains(emsg, <<"c","o","o","k","i","e","s">>)
        \/ Contains(emsg, <<"p","r","i","v","a","t","e">>)

Endpoints == {"json", "txt", "pdf", "docx"}

\* the `except Exception as e` branch of each endpoint
\* (lines 201-205, 227-228, 264-265, 295-296)
ErrorResponse(endpoint, msg) ==
    IF endpoint = "json"
    THEN [status |-> "error",
          message |-> IF LooksExpired(msg) THEN GuidanceMessage ELSE msg]
    ELSE [status |-> "body", message |-> msg]

\* the `if not transcript` branch of each endpoint (lines 190-191, 213-214, ...)
NoCaptionsResponse(endpoint) ==
    [status |-> IF endpoint = "json" THEN "error" ELSE "body",
     message |-> NoCaptionsMessage]

\* the success branch: the paragraphs handed to the formatter
SuccessResponse(endpoint, lines) ==
    [status |-> "success",
     message |-> MergeParagraphs(lines, MaxCharsDefault, MaxGapDefault)]

\* what an endpoint returns for the outcome of extract_transcript
Respond(endpoint, result, payload) ==
    IF result = "error" THEN ErrorResponse(endpoint, payload)
    ELSE IF result = "nocaps" \/ payload = <<>> THEN NoCaptionsResponse(endpoint)
    ELSE SuccessResponse(endpoint, payload)

-----------------------------------------------------------------------------
(* Requests: state *)

NoResponse == [status |-> "none", message |-> <<>>]

NoFetch ==
    [pc |-> "idle", cands |-> <<>>, idx |-> 0, listed |-> {},
     tried |-> <<>>, credFailed |-> FALSE, fbCalls |-> 0, fbSaw |-> "none",
     fbEnd |-> "none", cookie |-> 0, result |-> "none", payload |-> <<>>,
     endpoint |-> "none", response |-> NoResponse]

NoHealth == [pc |-> "idle", listing |-> <<>>, idx |-> 0, working |-> <<>>]

\* no request in flight
ReqIdle ==
    /\ overlap = FALSE
    /\ fetch = [r \in FetchSlots |-> NoFetch]
    /\ health = NoHealth
    /\ nReq = 0
    /\ promoListed = {} /\ promoExisted = {}

-----------------------------------------------------------------------------
(* The pool under whole operations: promotions, health checks and changes of
   the directory, one after the other *)

NumCookies == 7
NumFlaky == 0
MaxMutations == 3
MaxFsOps == 1

PoolNames == 1..NumCookies

NoOp == [kind |-> "none", arg |-> 0, repeat |-> FALSE, dropped |-> 0]
NoOps == [mut |-> 0, fs |-> 0]

PoolIdle ==
    /\ preferred_cookies = <<>> /\ files = {} /\ seen = {}
    /\ lastOp = NoOp /\ nOps = NoOps

\* line 25; the directory holds every cookie file, or all but the last one
PoolInit ==
    /\ preferred_cookies = <<>>
    /\ files \in {PoolNames, PoolNames \ {NumCookies}}
    /\ seen = files
    /\ lastOp = NoOp /\ nOps = NoOps

\* line 113: a fetch that listed c while it existed succeeds with it and calls
\* _update_preferred(c)
Promote(c) ==
    /\ nOps.mut < MaxMutations
    /\ c \in seen
    /\ preferred_cookies' = UpdatePreferred(preferred_cookies, c, files)
    /\ lastOp' = [kind |-> "promote", arg |-> c,
                  repeat |-> (lastOp.kind = "promote" /\ lastOp.arg = c),
                  dropped |-> Len(MoveToFront(preferred_cookies, c))
                              - Len(UpdatePreferred(preferred_cookies, c, files))
                              + (IF lastOp.kind = "promote" /\ lastOp.arg = c
                                 THEN lastOp.dropped ELSE 0)]
    /\ nOps' = [nOps EXCEPT !.mut = @ + 1]
    /\ UNCHANGED <<files, seen, segVars, reqVars>>

\* cookies_status(): every listed file is probed, the working ones are promoted
HealthCheck(working) ==
    /\ nOps.mut < MaxMutations
    /\ preferred_cookies' = HealthPromote(preferred_cookies, FindCookieFiles(working))
    /\ lastOp' = [kind |-> "health", arg |-> Cardinality(working),
                  repeat |-> FALSE, dropped |-> 0]
    /\ nOps' = [nOps EXCEPT !.mut = @ + 1]
    /\ UNCHANGED <<files, seen, segVars, reqVars>>

\* the operator adds a cookies_*.txt file
AddCookieFile(c) ==
    /\ nOps.fs < MaxFsOps /\ c \notin files
    /\ files' = files \cup {c}
    /\ seen' = seen \cup {c}
    /\ lastOp' = [kind |-> "fs", arg |-> c, repeat |-> FALSE, dropped |-> 0]
    /\ nOps' = [nOps EXCEPT !.fs = @ + 1]
    /\ UNCHANGED <<preferred_cookies, segVars, reqVars>>

\* the operator deletes a cookies_*.txt file
RemoveCookieFile(c) ==
    /\ nOps.fs < MaxFsOps /\ c \in files
    /\ files' = files \ {c}
    /\ UNCHANGED seen
    /\ lastOp' = [kind |-> "fs", arg |-> c, repeat |-> FALSE, dropped |-> 0]
    /\ nOps' = [nOps EXCEPT !.fs = @ + 1]
    /\ UNCHANGED <<preferred_cookies, segVars, reqVars>>

\* the probe results a health check can see: cookies 1..NumFlaky may fail
WorkingSets(fs) == {fs \ bad : bad \in SUBSET (fs \cap (1..NumFlaky))}

PoolNext ==
    \/ \E c \in PoolNames : Promote(c)
    \/ \E w \in WorkingSets(files) : HealthCheck(w)
    \/ \E c \in PoolNames : AddCookieFile(c)
    \/ \E c \in PoolNames : RemoveCookieFile(c)

InitPool == PoolInit /\ SegIdle /\ ReqIdle

SpecPool == InitPool /\ [][PoolNext]_vars

-----------------------------------------------------------------------------
(* Inputs of the segmenter *)

MaxLines == 3
SmallMaxChars == 6

SegTexts == {tHello, tWorld, tNextTopic, tMusic, tPadded, tBlank}
SegStarts == {0, 1, 20}
SegLines == [start : SegStarts, text : SegTexts]

RECURSIVE SeqsUpTo(_, _)
SeqsUpTo(S, n) ==
    IF n = 0 THEN {<<>>}
    ELSE LET shorter == SeqsUpTo(S, n - 1)
         IN  shorter \cup {Append(s, x) : s \in {t \in shorter : Len(t) = n - 1}, x \in S}

\* lines 159-162: the call and the three initialisations
SegInit ==
    /\ transcript \in SeqsUpTo(SegLines, MaxLines)
    /\ max_chars \in {MaxCharsDefault, SmallMaxChars}
    /\ max_gap = MaxGapDefault
    /\ i = 1 /\ current = <<>> /\ count = 0 /\ paragraphs = <<>>
    /\ segPc = "loop" /\ lastAppend = NoAppend

\* lines 164-169: an iteration that hits one of the two `continue`s
SegSkip ==
    /\ segPc = "loop" /\ i <= Len(transcript)
    /\ Filtered(transcript[i])
    /\ i' = i + 1
    /\ UNCHANGED <<transcript, max_chars, max_gap, current, count, paragraphs,
                   segPc, lastAppend, poolVars, reqVars>>

\* lines 164-180: an iteration that appends the line and closes or not
SegAppend ==
    /\ segPc = "loop" /\ i <= Len(transcript)
    /\ ~Filtered(transcript[i])
    /\ LET st == MergeStep([current |-> current, count |-> count,
                            paragraphs |-> paragraphs],
                           transcript, i, max_chars, max_gap)
       IN  /\ current' = st.current
           /\ count' = st.count
           /\ paragraphs' = st.paragraphs
           /\ lastAppend' = [idx |-> i,
                             cnt |-> count + Len(LineText(transcript[i])),
                             closed |-> Len(st.paragraphs) > Len(paragraphs)]
    /\ i' = i + 1
    /\ UNCHANGED <<transcript, max_chars, max_gap, segPc, poolVars, reqVars>>

\* line 182: return paragraphs
SegReturn ==
    /\ segPc = "loop" /\ i > Len(transcript)
    /\ segPc' = "done"
    /\ UNCHANGED <<transcript, max_chars, max_gap, i, current, count, paragraphs,
                   lastAppend, poolVars, reqVars>>

SegNext == SegSkip \/ SegAppend \/ SegReturn

InitSeg == SegInit /\ PoolIdle /\ ReqIdle

SpecSeg == InitSeg /\ [][SegNext]_vars

-----------------------------------------------------------------------------
(* Requests: extract_transcript behind an endpoint, and cookies_status.  A
   request is suspended at each network call; what runs between two network
   calls is one step. *)

NumReqCookies == 2
NumConcCookies == 1
MaxRequests == 2

ReqNames == 1..NumReqCookies

ConcNames == 1..NumConcCookies

ReqInit(mode, names) ==
    /\ preferred_cookies = <<>>
    /\ files \in SUBSET names
    /\ seen = {}
    /\ lastOp = NoOp /\ nOps = NoOps
    /\ overlap = mode
    /\ fetch = [r \in FetchSlots |-> NoFetch]
    /\ health = NoHealth
    /\ nReq = 0
    /\ promoListed = {} /\ promoExisted = {}

OthersIdle(r) == \A q \in FetchSlots \ {r} : fetch[q].pc = "idle"

\* a variant of the loop that skips a candidate
NextIndexSkip(k) == k + 2

\* the for loop of line 76 moving to its next element

NextIndex(k) == k + 1

\* lines 73-83: list the candidates and issue the first extraction call, or the
\* credential-less one when there is no candidate
FetchBegin(r, cands) ==
    /\ fetch[r].pc = "idle"
    /\ nReq < MaxRequests
    /\ overlap \/ (OthersIdle(r) /\ health.pc = "idle")
    /\ cands \in MakeOrderedCookieList(preferred_cookies, files)
    /\ fetch' = [fetch EXCEPT ![r] =
            [NoFetch EXCEPT
                !.pc = IF cands = <<>> THEN "fb_extract" ELSE "extract",
                !.cands = cands,
                !.idx = IF cands = <<>> THEN 0 ELSE 1,
                !.listed = files,
                !.tried = IF cands = <<>> THEN <<>> ELSE <<cands[1]>>,
                !.fbCalls = IF cands = <<>> THEN 1 ELSE 0]]
    /\ nReq' = nReq + 1
    /\ UNCHANGED <<segVars, poolVars, overlap, health, promoListed, promoExisted>>

\* a variant without the try/except of lines 82 and 116: a failed attempt ends
\* the request with an error
AbortOnFailure(f) ==
    [f EXCEPT !.pc = "done", !.credFailed = TRUE, !.result = "error",
              !.payload = mOther, !.endpoint = "json",
              !.response = Respond("json", "error", mOther)]

\* `continue` (lines 93, 97, 119): the next candidate's extraction call, or
\* after the last candidate the credential-less call of line 123
Continue(f) ==
    IF NextIndex(f.idx) <= Len(f.cands)
    THEN [f EXCEPT !.pc = "extract", !.idx = NextIndex(f.idx),
                   !.tried = Append(f.tried, f.cands[NextIndex(f.idx)]),
                   !.credFailed = TRUE]
    ELSE [f EXCEPT !.pc = "fb_extract", !.idx = NextIndex(f.idx),
                   !.fbCalls = f.fbCalls + 1,
                   !.credFailed = TRUE]

\* lines 83, 116-119: the extraction call with a cookie raises
FetchExtractRaise(r) ==
    /\ fetch[r].pc = "extract"
    /\ fetch' = [fetch EXCEPT ![r] = Continue(fetch[r])]
    /\ UNCHANGED <<segVars, poolVars, overlap, health, nReq, promoListed, promoExisted>>

\* lines 83-100: the extraction call with a cookie returns info
FetchExtractInfo(r, info) ==
    /\ fetch[r].pc = "extract"
    /\ fetch' = [fetch EXCEPT ![r] =
            IF TrackOutcome(info) = "en"
            THEN [fetch[r] EXCEPT !.pc = "download"]
            ELSE Continue(fetch[r])]
    /\ UNCHANGED <<segVars, poolVars, overlap, health, nReq, promoListed, promoExisted>>

\* lines 100-103, 116-119: the download or its parsing raises
FetchDownloadRaise(r) ==
    /\ fetch[r].pc = "download"
    /\ fetch' = [fetch EXCEPT ![r] = Continue(fetch[r])]
    /\ UNCHANGED <<segVars, poolVars, overlap, health, nReq, promoListed, promoExisted>>

\* lines 100-114 and the endpoint's response: the download succeeds, the cookie
\* is promoted, extract_transcript returns and the endpoint answers
FetchDownloadOk(r, events, endpoint) ==
    /\ fetch[r].pc = "download"
    /\ LET c == fetch[r].cands[fetch[r].idx]
       IN  /\ preferred_cookies' = UpdatePreferred(preferred_cookies, c, files)
           /\ promoListed' = IF c \in fetch[r].listed
                             THEN promoListed \cup {c} ELSE promoListed \ {c}
           /\ promoExisted' = IF c \in files
                              THEN promoExisted \cup {c} ELSE promoExisted \ {c}
           /\ fetch' = [fetch EXCEPT ![r] =
                   [fetch[r] EXCEPT
                       !.pc = "done", !.cookie = c, !.result = "transcript",
                       !.endpoint = endpoint,
                       !.response = Respond(endpoint, "transcript", Flatten(events))]]
    /\ UNCHANGED <<segVars, files, seen, lastOp, nOps, overlap, health, nReq>>

\* lines 123, 153-155 and the endpoint's except branch: the credential-less
\* extraction call raises
FallbackRaise(r, msg, endpoint) ==
    /\ fetch[r].pc = "fb_extract"
    /\ fetch' = [fetch EXCEPT ![r] =
            [fetch[r] EXCEPT
                !.pc = "done", !.fbEnd = "raise", !.result = "error",
                !.payload = msg, !.endpoint = endpoint,
                !.response = Respond(endpoint, "error", msg)]]
    /\ UNCHANGED <<segVars, poolVars, overlap, health, nReq, promoListed, promoExisted>>

\* history: what the returned track maps hold, as an observer sees it
TracksSeen(info) ==
    LET keys == Range(info.subtitles) \cup Range(info.automatic_captions)
    IN  IF keys = {} THEN "notracks"
        ELSE IF \A k \in keys : ~(Len(k) >= 2 /\ k[1] = "e" /\ k[2] = "n") THEN "noen"
        ELSE "en"

\* lines 123-139: the credential-less extraction call returns info
FallbackInfo(r, info, endpoint) ==
    /\ fetch[r].pc = "fb_extract"
    /\ fetch' = [fetch EXCEPT ![r] =
            IF TrackOutcome(info) = "en"
            THEN [fetch[r] EXCEPT !.pc = "fb_download", !.fbSaw = TracksSeen(info)]
            ELSE [fetch[r] EXCEPT
                     !.pc = "done", !.fbSaw = TracksSeen(info), !.fbEnd = "returned",
                     !.result = "nocaps", !.endpoint = endpoint,
                     !.response = Respond(endpoint, "nocaps", <<>>)]]
    /\ UNCHANGED <<segVars, poolVars, overlap, health, nReq, promoListed, promoExisted>>

\* lines 139-142, 153-155: the credential-less download or its parsing raises
FallbackDownloadRaise(r, msg, endpoint) ==
    /\ fetch[r].pc = "fb_download"
    /\ fetch' = [fetch EXCEPT ![r] =
            [fetch[r] EXCEPT
                !.pc = "done", !.fbEnd = "raise", !.result = "error",
                !.payload = msg, !.endpoint = endpoint,
                !.response = Respond(endpoint, "error", msg)]]
    /\ UNCHANGED <<segVars, poolVars, overlap, health, nReq, promoListed, promoExisted>>

\* lines 139-151: the credential-less download succeeds
FallbackDownloadOk(r, events, endpoint) ==
    /\ fetch[r].pc = "fb_download"
    /\ fetch' = [fetch EXCEPT ![r] =
            [fetch[r] EXCEPT
                !.pc = "done", !.fbEnd = "returned", !.result = "transcript",
                !.endpoint = endpoint,
                !.response = Respond(endpoint, "transcript", Flatten(events))]]
    /\ UNCHANGED <<segVars, poolVars, overlap, health, nReq, promoListed, promoExisted>>

\* the operator adds a cookies_*.txt file while requests are served
DirAdd(c) ==
    /\ nOps.fs < MaxFsOps /\ c \notin files
    /\ files' = files \cup {c}
    /\ nOps' = [nOps EXCEPT !.fs = @ + 1]
    /\ UNCHANGED <<segVars, preferred_cookies, seen, lastOp, reqVars>>

\* the operator deletes a cookies_*.txt file while requests are served
DirRemove(c) ==
    /\ nOps.fs < MaxFsOps /\ c \in files
    /\ files' = files \ {c}
    /\ nOps' = [nOps EXCEPT !.fs = @ + 1]
    /\ UNCHANGED <<segVars, preferred_cookies, seen, lastOp, reqVars>>

\* the response has been sent
FetchFinish(r) ==
    /\ fetch[r].pc = "done"
    /\ fetch' = [fetch EXCEPT ![r] = NoFetch]
    /\ UNCHANGED <<segVars, poolVars, overlap, health, nReq, promoListed, promoExisted>>

\* line 319: a probe counts as working when info has subtitles or automatic captions
ProbeWorking(info) == info.subtitles # <<>> \/ info.automatic_captions # <<>>

\* lines 327-333 on the list, and what the history records of it
HealthCommit(working, listing) ==
    /\ preferred_cookies' = HealthPromote(preferred_cookies, working)
    /\ promoListed' = (promoListed \ Range(working)) \cup (Range(working) \cap Range(listing))
    /\ promoExisted' = (promoExisted \ Range(working)) \cup (Range(working) \cap files)

\* lines 306-318: list the files and issue the first probe; with no file the
\* handler runs to its end
HealthBegin ==
    /\ health.pc = "idle"
    /\ nReq < MaxRequests
    /\ overlap \/ \A q \in FetchSlots : fetch[q].pc = "idle"
    /\ LET listing == FindCookieFiles(files)
       IN  health' = [pc |-> IF listing = <<>> THEN "done" ELSE "probe",
                      listing |-> listing,
                      idx |-> IF listing = <<>> THEN 0 ELSE 1,
                      working |-> <<>>]
    /\ nReq' = nReq + 1
    /\ UNCHANGED <<segVars, poolVars, overlap, fetch, promoListed, promoExisted>>

\* lines 317-333: a probe ends (ok: it found captions); after the last probe the
\* working cookies are promoted in the same step
HealthProbe(ok) ==
    /\ health.pc = "probe"
    /\ LET c == health.listing[health.idx]
           working == IF ok THEN Append(health.working, c) ELSE health.working
       IN  IF health.idx < Len(health.listing)
           THEN /\ health' = [health EXCEPT !.idx = @ + 1, !.working = working]
                /\ UNCHANGED <<preferred_cookies, promoListed, promoExisted>>
           ELSE /\ health' = [health EXCEPT !.pc = "done", !.working = working]
                /\ HealthCommit(working, health.listing)
    /\ UNCHANGED <<segVars, files, seen, lastOp, nOps, overlap, fetch, nReq>>

\* lines 335-339: the response has been sent
HealthFinish ==
    /\ health.pc = "done"
    /\ health' = NoHealth
    /\ UNCHANGED <<segVars, poolVars, overlap, fetch, nReq, promoListed, promoExisted>>

\* the steps of the requests in the slots `slots`, with responses for the
\* endpoints eps, exception messages msgs and caption payloads evs
ReqNextOn(slots, names, eps, msgs, evs) ==
    \/ \E r \in slots :
         \E cands \in MakeOrderedCookieList(preferred_cookies, files) : FetchBegin(r, cands)
    \/ \E r \in slots : FetchExtractRaise(r)
    \/ \E r \in slots, info \in Infos : FetchExtractInfo(r, info)
    \/ \E r \in slots : FetchDownloadRaise(r)
    \/ \E r \in slots, ev \in evs, e \in eps : FetchDownloadOk(r, ev, e)
    \/ \E r \in slots, m \in msgs, e \in eps : FallbackRaise(r, m, e)
    \/ \E r \in slots, info \in Infos, e \in eps : FallbackInfo(r, info, e)
    \/ \E r \in slots, m \in msgs, e \in eps : FallbackDownloadRaise(r, m, e)
    \/ \E r \in slots, ev \in evs, e \in eps : FallbackDownloadOk(r, ev, e)
    \/ \E r \in slots : FetchFinish(r)
    \/ HealthBegin
    \/ \E info \in Infos : HealthProbe(ProbeWorking(info))
    \/ HealthProbe(FALSE)
    \/ HealthFinish
    \/ \E c \in names : DirAdd(c)
    \/ \E c \in names : DirRemove(c)

FetchNext == ReqNextOn({"f1"}, ReqNames, Endpoints, Messages, EventLists)

ConcNext == ReqNextOn(FetchSlots, ConcNames, {"json"}, {mOther}, {<<>>})

InitFetch == ReqInit(FALSE, ReqNames) /\ SegIdle

InitConc == ReqInit(TRUE, ConcNames) /\ SegIdle

\* requests one at a time
SpecFetch == InitFetch /\ [][FetchNext]_vars

\* overlapping requests
SpecConc == InitConc /\ [][ConcNext]_vars

-----------------------------------------------------------------------------
(* Claims about merge_paragraphs *)

KeepLine(line) == ~Filtered(line)

RECURSIVE TextsOf(_)
TextsOf(tr) == IF tr = <<>> THEN <<>> ELSE <<LineText(Head(tr))>> \o TextsOf(Tail(tr))

\* the trimmed texts of the lines that are neither blank nor a filler marker
KeptTexts(tr) == TextsOf(SelectSeq(tr, KeepLine))

RECURSIVE JoinSpace(_)
JoinSpace(ss) ==
    IF ss = <<>> THEN <<>>
    ELSE IF Len(ss) = 1 THEN ss[1]
    ELSE ss[1] \o <<" ">> \o JoinSpace(Tail(ss))

RECURSIVE TotalTextLen(_)
TotalTextLen(tr) ==
    IF tr = <<>> THEN 0 ELSE Len(Head(tr).text) + TotalTextLen(Tail(tr))

NoLongGap(tr, gap) ==
    \A k \in 1..(Len(tr) - 1) : tr[k + 1].start - tr[k].start <= gap

\* The precondition of C1, read charitably: at least one line carries text.
C1_Pre ==
    /\ Len(transcript) >= 1
    /\ TotalTextLen(transcript) <= max_chars
    /\ NoLongGap(transcript, max_gap)
    /\ KeptTexts(transcript) # <<>>

\* C1: a non-empty input whose total text length is at most max_chars and that
\* has no gap above max_gap comes back as exactly one paragraph, the kept texts
\* joined with spaces in input order, also when the input ends with a blank or
\* filler-marker line.
C1_OneParagraph ==
    (segPc = "done" /\ C1_Pre) => paragraphs = <<JoinSpace(KeptTexts(transcript))>>

\* C2: for every input and thresholds, the returned paragraphs joined with one
\* space are the trimmed texts of all non-filtered lines joined with one space:
\* nothing is lost, duplicated or reordered.
C2_NothingLost ==
    segPc = "done" => JoinSpace(paragraphs) = JoinSpace(KeptTexts(transcript))

\* index of the next non-filtered line after k, 0 when there is none
NextKeptIdx(tr, k) ==
    LET later == {m \in (k + 1)..Len(tr) : ~Filtered(tr[m])}
    IN  IF later = {} THEN 0 ELSE CHOOSE m \in later : \A n \in later : m <= n

ScenarioLines ==
    << [start |-> 0, text |-> tHello], [start |-> 1, text |-> tWorld],
       [start |-> 20, text |-> tNextTopic] >>

ScenarioParagraphs == << tHello \o <<" ">> \o tWorld, tNextTopic >>

\* the scenario of C3 on its own
ScenarioHolds ==
    (segPc = "done" /\ transcript = ScenarioLines /\ max_chars = MaxCharsDefault)
        => paragraphs = ScenarioParagraphs

\* C3: after appending a non-filtered line the paragraph is closed exactly when
\* the count exceeds max_chars, or the next non-filtered line starts more than
\* max_gap after this one, or there is no next non-filtered line; and the
\* scenario input gives ["Hello world", "Next topic"].
C3_CloseRule ==
    /\ lastAppend.idx # 0 =>
         LET k == lastAppend.idx
             nk == NextKeptIdx(transcript, k)
         IN  lastAppend.closed <=>
               \/ lastAppend.cnt > max_chars
               \/ nk # 0 /\ transcript[nk].start - transcript[k].start > max_gap
               \/ nk = 0
    /\ ScenarioHolds

-----------------------------------------------------------------------------
(* Claims about the pool under whole operations *)

Occurrences(l, x) == Cardinality({k \in 1..Len(l) : l[k] = x})

IsPrefix(a, b) == Len(a) <= Len(b) /\ SubSeq(b, 1, Len(a)) = a

\* l without the entries equal to x
RECURSIVE Without(_, _)
Without(l, x) ==
    IF l = <<>> THEN <<>>
    ELSE (IF Head(l) = x THEN <<>> ELSE <<Head(l)>>) \o Without(Tail(l), x)

C4_Step ==
    lastOp'.kind = "promote" =>
        LET f == lastOp'.arg
            p == preferred_cookies'
        IN  /\ p # <<>> /\ p[1] = f
            /\ Occurrences(p, f) = 1
            /\ UpdatePreferred(p, f, files') = p
            /\ IsPrefix(Without(p, f), Without(preferred_cookies, f))
            /\ (lastOp.kind = "promote" /\ lastOp.arg = f /\ nOps'.mut > nOps.mut)
                   => p = preferred_cookies

\* C4: after promote(f), f is in the list exactly once and at the front, the
\* other retained entries keep their relative order, and promoting f again
\* with the same directory leaves the list unchanged.
C4_PromoteIdempotent == [][C4_Step]_vars

\* promote(f) was called twice in a row, and the run dropped entries by truncation
C4_Witness ==
    lastOp.kind = "promote" /\ lastOp.repeat /\ lastOp.dropped > 0

\* C6: after every completed mutation of the list, by a promotion or by the
\* health check, its length is at most max(6, number of existing cookie files).
C6_Bounded ==
    lastOp.kind \in {"promote", "health"} =>
        Len(preferred_cookies) <= Max(MinKeep, Cardinality(files))

\* the part of C6 that is about _update_preferred
C6_PromoteBounded ==
    lastOp.kind = "promote" =>
        Len(preferred_cookies) <= Max(MinKeep, Cardinality(files))

-----------------------------------------------------------------------------
(* Claims about requests served one at a time *)

NoDuplicates(l) == \A a, b \in 1..Len(l) : a # b => l[a] # l[b]

StillThere(c) == c \in files

\* the preferred cookies that exist now, in stored order
ExistingPreferred == SelectSeq(preferred_cookies, StillThere)

\* C5: whatever the list and the directory hold, _make_ordered_cookie_list
\* returns a duplicate-free list of exactly the files now present, the
\* preferred ones that still exist first, in stored order; and the candidates
\* of a request are exactly the files present when it listed them.
C5_OrderedCandidates ==
    /\ \A l \in MakeOrderedCookieList(preferred_cookies, files) :
          /\ NoDuplicates(l)
          /\ Range(l) = files
          /\ IsPrefix(ExistingPreferred, l)
    /\ \A r \in FetchSlots :
          fetch[r].pc # "idle" =>
              NoDuplicates(fetch[r].cands) /\ Range(fetch[r].cands) = fetch[r].listed

\* a request took its candidates while a promoted file was gone and others existed
C5_Witness ==
    \E r \in FetchSlots :
        /\ fetch[r].pc = "extract" /\ fetch[r].tried = <<fetch[r].cands[1]>>
        /\ fetch[r].listed = files
        /\ \E k \in 1..Len(preferred_cookies) : preferred_cookies[k] \notin files
        /\ ExistingPreferred # <<>>

\* C7: extract_transcript fails exactly when no cookie attempt succeeded and
\* the credential-less attempt raised; a failed cookie attempt never ends the
\* request; a credential-less attempt that sees no tracks or no English track
\* returns (info, None).
C7_FailsOnlyOnExhaustion ==
    \A r \in FetchSlots :
        LET f == fetch[r]
        IN  f.pc = "done" =>
              /\ f.result = "error" <=> (f.cookie = 0 /\ f.fbEnd = "raise")
              /\ f.result = "error" => (f.fbCalls = 1 /\ f.tried = f.cands)
              /\ f.fbSaw \in {"notracks", "noen"} => f.result = "nocaps"
              /\ f.credFailed => (f.cookie # 0 \/ f.fbCalls = 1)

\* no cookie file, and the credential-less call found only non-English tracks
C7_Witness ==
    \E r \in FetchSlots :
        /\ fetch[r].pc = "done" /\ fetch[r].listed = {} /\ fetch[r].cands = <<>>
        /\ fetch[r].fbSaw = "noen" /\ fetch[r].result = "nocaps"
        /\ fetch[r].response.message = NoCaptionsMessage

\* the hints the claim names, looked for case-insensitively
NamedHint(msg) ==
    \/ Contains(Lower(msg), <<"s","i","g","n"," ","i","n">>)
    \/ Contains(Lower(msg), <<"n","o","t"," ","a"," ","b","o","t">>)
    \/ Contains(Lower(msg), <<"c","o","o","k","i","e">>)
    \/ Contains(Lower(msg), <<"p","r","i","v","a","t","e">>)

\* C8: when the fetch fails with a message carrying a sign-in, bot-check,
\* cookie or private hint, every transcript endpoint answers with the guidance
\* text and not with the exception text; other failures come back as a normal
\* response carrying the error.
C8_GuidanceOnAllEndpoints ==
    \A r \in FetchSlots :
        (fetch[r].pc = "done" /\ fetch[r].result = "error") =>
            IF NamedHint(fetch[r].payload)
            THEN fetch[r].response.message = GuidanceMessage
            ELSE fetch[r].response.message = fetch[r].payload

\* the part of C8 that is about the JSON endpoint
C8_JsonOnly ==
    \A r \in FetchSlots :
        (fetch[r].pc = "done" /\ fetch[r].result = "error" /\ fetch[r].endpoint = "json") =>
            IF NamedHint(fetch[r].payload)
            THEN fetch[r].response.message = GuidanceMessage
            ELSE fetch[r].response.message = fetch[r].payload

InFlight(r) == fetch[r].pc \notin {"idle", "done"}

C9_Inv ==
    \A r \in FetchSlots :
        LET f == fetch[r]
        IN  /\ IsPrefix(f.tried, f.cands)
            /\ NoDuplicates(f.tried)
            /\ f.fbCalls <= 1
            /\ f.fbCalls = 1 => (f.tried = f.cands /\ f.cookie = 0)
            /\ (f.pc = "done" /\ f.cookie = 0) => f.fbCalls = 1
            /\ f.cookie # 0 =>
                  /\ f.pc = "done" /\ f.fbCalls = 0
                  /\ f.tried # <<>> /\ f.cookie = f.tried[Len(f.tried)]
                  /\ preferred_cookies # <<>> /\ preferred_cookies[1] = f.cookie

C9_Step ==
    \A r \in FetchSlots :
        /\ (fetch[r].cookie = 0 /\ fetch'[r].cookie # 0) =>
              IsPrefix(Without(preferred_cookies', fetch'[r].cookie),
                       Without(preferred_cookies, fetch'[r].cookie))
        /\ (InFlight(r) /\ preferred_cookies' # preferred_cookies) =>
              (fetch'[r].pc = "done" /\ fetch'[r].cookie # 0)

\* C9: the candidates are tried in the order of the candidate list, each at
\* most once; the fetch returns at the first success and promotes that
\* candidate and no other; the credential-less call is made once, and only
\* after every candidate was tried without success; a fetch that ends through
\* the credential-less call or with an error leaves the list unchanged.
C9_FetchOrder == [](C9_Inv) /\ [][C9_Step]_vars

\* the second candidate succeeded after the first one failed
C9_Witness ==
    \E r \in FetchSlots :
        /\ fetch[r].pc = "done" /\ fetch[r].cookie # 0
        /\ Len(fetch[r].tried) = 2 /\ fetch[r].credFailed
        /\ preferred_cookies[1] = fetch[r].cookie

-----------------------------------------------------------------------------
(* Claims about overlapping requests *)

\* C10 as amended: the list never holds a duplicate, and every entry is a name
\* that was in the directory listing taken by the request that promoted it.
C10_NoCorruption ==
    /\ NoDuplicates(preferred_cookies)
    /\ \A k \in 1..Len(preferred_cookies) : preferred_cookies[k] \in promoListed

\* C10: under any interleaving the list holds no duplicate, and every entry is
\* a name that existed in the directory at the time it was promoted.
C10_ExistedWhenPromoted ==
    /\ NoDuplicates(preferred_cookies)
    /\ \A k \in 1..Len(preferred_cookies) : preferred_cookies[k] \in promoExisted

\* two overlapping fetches have both promoted, and the list holds a name that
\* is no longer in the directory
C10_Witness ==
    /\ \A r \in FetchSlots : fetch[r].pc = "done" /\ fetch[r].cookie # 0
    /\ \E k \in 1..Len(preferred_cookies) : preferred_cookies[k] \notin files

=============================================================================
